---- MODULE Spec2Model ----
(***************************************************************************)
(* State-machine model of rss_to_epub.py: RSSToEpubConverter (history      *)
(* store, process_feed), RSSFeedMonitor (feed registry, polling loop) and  *)
(* main (single feed mode and monitor mode).                               *)
(*                                                                         *)
(* Strings are sequences of one-character strings, so that str.strip() is  *)
(* computed and not assumed.  A text file is the sequence of its lines     *)
(* (without the line terminators).                                         *)
(***************************************************************************)
EXTENDS Integers, Sequences, FiniteSets, TLC

(* ------------------------------ bounds --------------------------------- *)
\* longest entry sequence a feed serves in single feed mode
MaxEntries == 2
\* number of times the process is started again after it ended
MaxRestarts == 1
\* number of times the feed list file is rewritten while the program runs
MaxEdits == 2
\* longest short title of a post handed to _create_epub
MaxTitleLen == 2
\* a long title is a longest short title repeated this many times
LongReps == 26

(* ------------------------------ strings -------------------------------- *)
EmptyStr == <<>>

IsSpace(c) == c = " "

RECURSIVE LStrip(_)
LStrip(s) == IF s # <<>> /\ IsSpace(Head(s)) THEN LStrip(Tail(s)) ELSE s

RECURSIVE RStrip(_)
RStrip(s) ==
    IF s # <<>> /\ IsSpace(s[Len(s)]) THEN RStrip(SubSeq(s, 1, Len(s) - 1)) ELSE s

\* str.strip()
Strip(s) == RStrip(LStrip(s))

\* str.startswith('#')
StartsWithHash(s) == s # <<>> /\ Head(s) = "#"

Range(s) == { s[k] : k \in 1..Len(s) }

RECURSIVE SeqsUpTo(_, _)
SeqsUpTo(S, n) ==
    IF n = 0 THEN { <<>> }
    ELSE LET shorter == SeqsUpTo(S, n - 1)
         IN  shorter \cup { Append(q, x) : q \in { r \in shorter : Len(r) = n - 1 }, x \in S }

(* ------------------------------ inputs --------------------------------- *)
F1 == <<"f">>
F2 == <<"g">>
URLs == { F1, F2 }

\* identifier strings the feed library can hand over for an entry
IdA  == <<"a">>
IdB  == <<"b">>
IdSA == <<" ", "a">>

\* a feedparser entry: optional id, optional link
Entry(hasId, id, hasLink, link) ==
    [has_id |-> hasId, id |-> id, has_link |-> hasLink, link |-> link]

Entries ==
    { Entry(TRUE, IdA, FALSE, EmptyStr),
      Entry(TRUE, IdSA, FALSE, EmptyStr),
      Entry(FALSE, EmptyStr, TRUE, IdB),
      Entry(TRUE, EmptyStr, TRUE, IdB),
      Entry(FALSE, EmptyStr, FALSE, EmptyStr) }

\* what a feed can serve, by mode (the monitor polls two feeds, each short)
FeedContents(m) ==
    IF m = "single" THEN SeqsUpTo(Entries, MaxEntries)
    ELSE SeqsUpTo({ Entry(TRUE, IdA, FALSE, EmptyStr), Entry(TRUE, IdSA, FALSE, EmptyStr) }, 1)

\* what the feed list file can hold: URLs, a comment line, a blank line
FeedLists == { <<F1>>, <<F1, F2>>, << <<"#", "f">>, F2 >>, << <<"#", "f">>, <<" ">> >> }

\* the characters of the titles: alphanumeric, blank, underscore, punctuation
TitleChars == { "a", " ", "_", "!" }

RECURSIVE Repeat(_, _)
Repeat(s, n) == IF n = 0 THEN <<>> ELSE s \o Repeat(s, n - 1)

Titles ==
    SeqsUpTo(TitleChars, MaxTitleLen)
    \cup { Repeat(t, LongReps) : t \in { q \in SeqsUpTo(TitleChars, MaxTitleLen) : Len(q) = MaxTitleLen } }

\* a feedparser entry as _create_epub reads it: the entry with its optional title
Post(entry, hasTitle, title) ==
    [has_id |-> entry.has_id, id |-> entry.id, has_link |-> entry.has_link,
     link |-> entry.link, has_title |-> hasTitle, title |-> title]

\* the posts handed to _create_epub: they have an id or a link
Posts ==
    LET es == { Entry(TRUE, IdA, FALSE, EmptyStr), Entry(TRUE, IdB, FALSE, EmptyStr),
                Entry(FALSE, EmptyStr, TRUE, IdB), Entry(TRUE, IdA, TRUE, IdB) }
    IN  { Post(e, TRUE, t) : e \in es, t \in Titles } \cup { Post(e, FALSE, EmptyStr) : e \in es }

(* --------------------------- file names -------------------------------- *)
\* hashlib.sha256(s.encode('utf-8')).hexdigest()[:16] on the URLs and the identifiers
\* of the model (OTHER is the empty string)
Sha16(url) == CASE url = F1   -> "252f10c83610ebca"
                [] url = F2   -> "cd0aa9856147b6c5"
                [] url = IdA  -> "ca978112ca1bbdca"
                [] url = IdB  -> "3e23e8160039594a"
                [] url = IdSA -> "7de598b3ff8a9963"
                [] OTHER      -> "e3b0c44298fc1c14"

HistoryFileOf(feed_url) == <<"seen_posts_", Sha16(feed_url), ".txt">>
DefaultHistoryFile == <<"seen_posts", "", ".txt">>
HistoryFiles == { HistoryFileOf(u) : u \in URLs } \cup { DefaultHistoryFile }

(* ------------------------------- state --------------------------------- *)
VARIABLES
    mode,                  \* sys.argv: "single" (a feed URL) or "monitor" (--monitor)
    pc,                    \* position of main / RSSFeedMonitor.run
    converters,            \* RSSFeedMonitor.converters in insertion order (single feed
                           \* mode: the one converter of main)
    last_feed_list_mtime,  \* <<>> is None, <<t>> is the timestamp t
    cur,                   \* index in converters of the converter whose process_feed runs
    fpc,                   \* position inside process_feed
    entries,               \* feed.entries of the running process_feed
    idx,                   \* position of the for loop over feed.entries
    new_posts_count,
    feedListFile,          \* disk: the feed list file
    histFiles,             \* disk: history file name -> lines
    output,                \* disk: identifiers whose artifact is in the output directory
    restarts,              \* times the process was started again
    log,                   \* what the running process_feed did with each entry so far
    hist0,                 \* length of the history file when the running call began
    prev,                  \* summary of the last process_feed call that returned
    invoked,               \* the process_feed invocations of this monitor cycle
    born,                  \* history file -> its length when the converter that now
                           \* owns it was constructed
    epubCalls              \* the first two posts _create_epub named a file for, with
                           \* the file names

progVars == <<mode, pc, converters, last_feed_list_mtime, cur, fpc, entries, idx, new_posts_count>>
diskVars == <<feedListFile, histFiles, output>>
obsVars  == <<restarts, log, hist0, prev, invoked, born>>
vars     == <<progVars, diskVars, obsVars, epubCalls>>

NoPrev == [file |-> <<>>, entries |-> <<>>, ok |-> {}, failed |-> {}]

(* ------------------------- RSSToEpubConverter -------------------------- *)
\* _load_history: set(line.strip() for line in f if line.strip())
LoadHistory(lines) == { Strip(lines[k]) : k \in { j \in 1..Len(lines) : Strip(lines[j]) # EmptyStr } }

\* _save_post_id with the file opened with 'w': the file is truncated first
SavePostIdTruncating(lines, post_id) == << post_id >>

\* _save_post_id: f.write(f"{post_id}\n") on a file opened for appending
SavePostId(lines, post_id) == Append(lines, post_id)

\* the inner default is a placeholder string and not ''
PostIdPlaceholder(entry) ==
    IF entry.has_id THEN entry.id
    ELSE IF entry.has_link THEN entry.link
    ELSE IdB

\* entry.get('id', entry.get('link', ''))
PostId(entry) ==
    IF entry.has_id THEN entry.id
    ELSE IF entry.has_link THEN entry.link
    ELSE EmptyStr

\* post.get('title', 'Untitled')
Title(post) ==
    IF post.has_title THEN post.title ELSE <<"U", "n", "t", "i", "t", "l", "e", "d">>

\* str.isalnum() on the characters of the model
IsAlnum(c) == c \in { "a", "U", "n", "t", "i", "l", "e", "d" }

\* c if c.isalnum() or c in ('-', '_') else '_' if c == ' ' else ''
SafeChar(c) ==
    IF IsAlnum(c) \/ c \in { "-", "_" } THEN <<c>>
    ELSE IF c = " " THEN <<"_">>
    ELSE <<>>

\* "".join(... for c in title)
RECURSIVE JoinSafe(_)
JoinSafe(title) ==
    IF title = <<>> THEN <<>> ELSE SafeChar(Head(title)) \o JoinSafe(Tail(title))

\* str.strip('_')
RECURSIVE StripUnderscores(_)
StripUnderscores(s) ==
    IF s # <<>> /\ Head(s) = "_" THEN StripUnderscores(Tail(s))
    ELSE IF s # <<>> /\ s[Len(s)] = "_" THEN StripUnderscores(SubSeq(s, 1, Len(s) - 1))
    ELSE s

\* safe_title[:50]
TitleLimit == 50
Truncate(s) == IF Len(s) > TitleLimit THEN SubSeq(s, 1, TitleLimit) ELSE s

\* safe_title of _create_epub
SafeTitle(title) ==
    LET safe_title == Truncate(StripUnderscores(JoinSafe(title)))
    IN  IF safe_title = <<>> THEN <<"p", "o", "s", "t">> ELSE safe_title

\* the digest in the file name is taken from the title
EpubFilenameTitleHash(post) ==
    SafeTitle(Title(post)) \o <<"_", Sha16(Title(post)), ".epub">>

\* f"{safe_title}_{id_hash}.epub" with id_hash the digest of post_id
EpubFilename(post) ==
    SafeTitle(Title(post)) \o <<"_", Sha16(PostId(post)), ".epub">>

\* _create_epub returns a path without having written the file
WriteEpubNothing(out, post_id) == out

\* epub.write_epub(filepath, book): the artifact of the post is in the output directory
WriteEpub(out, post_id) == out \cup { post_id }

\* the identifier is not added to the in-memory set
SeenAddLost(seen_posts, post_id) == seen_posts

\* self.seen_posts.add(post_id)
SeenAdd(seen_posts, post_id) == seen_posts \cup { post_id }

\* a `break` (or a re-raise) in the except branch: the for loop is left
AfterFailureBreak(i, n) == n + 1

\* the `continue` of the except branch: the for loop goes on with the next entry
AfterFailure(i, n) == i + 1

\* RSSToEpubConverter(rss_url, history_file, output_dir), once _load_history returned
NewConverter(rss_url, history_file, files) ==
    [rss_url |-> rss_url, history_file |-> history_file,
     seen_posts |-> LoadHistory(files[history_file])]

Conv == converters[cur]
HistLines == histFiles[Conv.history_file]
Logged(post_id, res) == Append(log, [id |-> post_id, res |-> res])
Converting == { "ok", "convfail", "savefail" }

\* what a returned call leaves for the next call to be compared with
CallSummary ==
    [file    |-> Conv.history_file,
     entries |-> entries,
     ok      |-> { log[k].id : k \in { j \in 1..Len(log) : log[j].res = "ok" } },
     failed  |-> { log[k].id : k \in { j \in 1..Len(log) : log[j].res = "convfail" } }
                 \ { log[k].id : k \in { j \in 1..Len(log) : log[j].res \in { "ok", "savefail" } } }]

InProcessFeed == pc \in { "process", "feeds" } /\ cur \in 1..Len(converters)

\* a summary is kept only to compare a call with the call before it on the same
\* history file and the same feed content
KeptPrev(es) ==
    IF prev.file = Conv.history_file /\ prev.entries = es THEN prev ELSE NoPrev

\* process_feed up to the for loop: feedparser.parse, the empty-feed return
ProcessFeedFetch ==
    /\ InProcessFeed /\ fpc = "idle"
    /\ log' = <<>>
    /\ hist0' = Len(HistLines)
    /\ \E raised \in BOOLEAN :
        /\ invoked' = Append(invoked, [url |-> Conv.rss_url, raised |-> raised])
        /\ IF raised
           THEN /\ fpc' = "raised"
                /\ prev' = NoPrev
                /\ UNCHANGED <<entries, idx, new_posts_count>>
           ELSE \E es \in FeedContents(mode) :
                /\ entries' = es
                /\ prev' = KeptPrev(es)
                /\ new_posts_count' = 0
                /\ IF es = <<>> THEN fpc' = "done" /\ idx' = 0
                   ELSE fpc' = "for" /\ idx' = 1
    /\ UNCHANGED <<mode, pc, converters, last_feed_list_mtime, cur, diskVars, restarts, born>>
    /\ UNCHANGED epubCalls

\* one iteration of the for loop up to the return of _create_epub
ExamineEntry ==
    /\ InProcessFeed /\ fpc = "for" /\ idx <= Len(entries)
    /\ LET post_id == PostId(entries[idx]) IN
       IF post_id = EmptyStr
       THEN /\ log' = Logged(post_id, "noid")
            /\ idx' = idx + 1
            /\ UNCHANGED <<fpc, output>>
       ELSE IF post_id \in Conv.seen_posts
       THEN /\ log' = Logged(post_id, "seen")
            /\ idx' = idx + 1
            /\ UNCHANGED <<fpc, output>>
       ELSE \E created \in BOOLEAN :
            IF created
            THEN /\ output' = WriteEpub(output, post_id)
                 /\ fpc' = "created"
                 /\ UNCHANGED <<idx, log>>
            ELSE /\ log' = Logged(post_id, "convfail")
                 /\ idx' = AfterFailure(idx, Len(entries))
                 /\ UNCHANGED <<fpc, output>>
    /\ UNCHANGED <<mode, pc, converters, last_feed_list_mtime, cur, entries, new_posts_count,
                   feedListFile, histFiles, restarts, hist0, prev, invoked, born>>
    /\ UNCHANGED epubCalls

\* self.seen_posts.add(post_id)
MarkSeen ==
    /\ InProcessFeed /\ fpc = "created"
    /\ converters' = [converters EXCEPT
           ![cur].seen_posts = SeenAdd(@, PostId(entries[idx]))]
    /\ fpc' = "added"
    /\ UNCHANGED <<mode, pc, last_feed_list_mtime, cur, entries, idx, new_posts_count,
                   diskVars, obsVars>>
    /\ UNCHANGED epubCalls

\* self._save_post_id(post_id); new_posts_count += 1, or the except branch
SaveAndCount ==
    /\ InProcessFeed /\ fpc = "added"
    /\ LET post_id == PostId(entries[idx]) IN
       \E saved \in BOOLEAN :
         IF saved
         THEN /\ histFiles' = [histFiles EXCEPT ![Conv.history_file] = SavePostId(@, post_id)]
              /\ new_posts_count' = new_posts_count + 1
              /\ log' = Logged(post_id, "ok")
              /\ idx' = idx + 1
         ELSE /\ log' = Logged(post_id, "savefail")
              /\ idx' = AfterFailure(idx, Len(entries))
              /\ UNCHANGED <<histFiles, new_posts_count>>
    /\ fpc' = "for"
    /\ UNCHANGED <<mode, pc, converters, last_feed_list_mtime, cur, entries,
                   feedListFile, output, restarts, hist0, prev, invoked, born>>
    /\ UNCHANGED epubCalls

\* the for loop is exhausted: return new_posts_count
ProcessFeedReturn ==
    /\ InProcessFeed /\ fpc = "for" /\ idx > Len(entries)
    /\ fpc' = "done"
    /\ UNCHANGED <<mode, pc, converters, last_feed_list_mtime, cur, entries, idx,
                   new_posts_count, diskVars, obsVars>>
    /\ UNCHANGED epubCalls

\* born once the registry is convs: a history file that gets a converter is taken
\* over at its present length, one that keeps its converter keeps its mark
BornWith(convs) ==
    [f \in HistoryFiles |->
        IF ~\E k \in 1..Len(convs) : convs[k].history_file = f THEN 0
        ELSE IF \E k \in 1..Len(converters) : converters[k].history_file = f THEN born[f]
        ELSE Len(histFiles[f])]

(* --------------------------- main, single feed -------------------------- *)
\* converter = RSSToEpubConverter(rss_url, output_dir=output_dir)
MainSingle ==
    /\ mode = "single" /\ pc = "start"
    /\ \E readable \in BOOLEAN :
        IF readable
        THEN /\ converters' = << NewConverter(F1, DefaultHistoryFile, histFiles) >>
             /\ born' = BornWith(converters')
             /\ cur' = 1
             /\ pc' = "process"
        ELSE /\ pc' = "crashed"
             /\ UNCHANGED <<converters, cur, born>>
    /\ UNCHANGED <<mode, last_feed_list_mtime, fpc, entries, idx, new_posts_count,
                   diskVars, restarts, log, hist0, prev, invoked>>
    /\ UNCHANGED epubCalls

\* the process is gone: nothing of its memory is left
MemoryGone ==
    /\ converters' = <<>>
    /\ last_feed_list_mtime' = <<>>
    /\ cur' = 0
    /\ fpc' = "idle"
    /\ entries' = <<>>
    /\ idx' = 0
    /\ new_posts_count' = 0
    /\ log' = <<>>
    /\ hist0' = 0
    /\ invoked' = <<>>
    /\ born' = [f \in HistoryFiles |-> 0]

\* converter.process_feed() has returned or raised: the process ends
MainSingleEnd ==
    /\ mode = "single" /\ pc = "process" /\ fpc \in { "done", "raised" }
    /\ pc' = IF fpc = "done" THEN "exit" ELSE "crashed"
    /\ prev' = IF fpc = "done" THEN CallSummary ELSE NoPrev
    /\ MemoryGone
    /\ UNCHANGED <<mode, diskVars, restarts>>
    /\ UNCHANGED epubCalls

(* ---------------------------- RSSFeedMonitor --------------------------- *)
\* the test of _load_feed_list on a stripped line
KeepLine(line) == line # EmptyStr /\ ~StartsWithHash(line)

\* _load_feed_list
LoadFeedList(file) ==
    IF ~file.exists THEN <<>>
    ELSE SelectSeq([k \in 1..Len(file.lines) |-> Strip(file.lines[k])], KeepLine)

\* _check_feed_list_updated: <<return value, last_feed_list_mtime afterwards>>
CheckFeedListUpdated(file, last) ==
    IF ~file.exists THEN <<FALSE, last>>
    ELSE IF last = <<>> THEN <<FALSE, <<file.mtime>> >>
    ELSE IF file.mtime > last[1] THEN <<TRUE, <<file.mtime>> >>
    ELSE <<FALSE, last>>

\* the orders in which `for feed_url in new_feeds` can visit a set
Orders(S) == { q \in SeqsUpTo(S, Cardinality(S)) : Len(q) = Cardinality(S) /\ Range(q) = S }

ConvertersFor(feedUrls, files) ==
    [k \in 1..Len(feedUrls) |-> NewConverter(feedUrls[k], HistoryFileOf(feedUrls[k]), files)]

Keys(convs) == { convs[k].rss_url : k \in 1..Len(convs) }

\* del self.converters[feed_url] for every removed feed
DeleteFeeds(convs, removed_feeds) ==
    SelectSeq(convs, LAMBDA c : c.rss_url \notin removed_feeds)

\* what _update_converters does when the feed list is empty: return
EmptyListUpdate(convs) == convs

\* _update_converters: the registries it can leave, with whether it raised (the
\* constructor of a new converter reads the history file, which can fail)
UpdateConverters(convs, file, files) ==
    LET feeds == LoadFeedList(file) IN
    IF feeds = <<>>
    THEN { [converters |-> EmptyListUpdate(convs), raised |-> FALSE] }
    ELSE LET current_feeds  == Range(feeds)
             existing_feeds == Keys(convs)
             new_feeds      == current_feeds \ existing_feeds
             removed_feeds  == existing_feeds \ current_feeds
         IN  { [converters |-> DeleteFeeds(convs \o ConvertersFor(ord, files), removed_feeds),
                raised |-> FALSE] : ord \in Orders(new_feeds) }
             \cup
             { [converters |-> convs \o ConvertersFor(SubSeq(ord, 1, f - 1), files),
                raised |-> TRUE] : ord \in Orders(new_feeds), f \in 1..Cardinality(new_feeds) }

\* run() up to the while loop
RunStart ==
    /\ mode = "monitor" /\ pc = "start"
    /\ \E r \in UpdateConverters(<<>>, feedListFile, histFiles) :
        IF r.raised
        THEN pc' = "crashed" /\ MemoryGone
        ELSE IF r.converters = <<>>
        THEN pc' = "returned" /\ MemoryGone
        ELSE /\ pc' = "loop"
             /\ converters' = r.converters
             /\ born' = BornWith(r.converters)
             /\ last_feed_list_mtime' =
                    IF feedListFile.exists THEN <<feedListFile.mtime>> ELSE <<>>
             /\ UNCHANGED <<cur, fpc, entries, idx, new_posts_count, log, hist0, invoked>>
    /\ UNCHANGED <<mode, diskVars, restarts, prev>>
    /\ UNCHANGED epubCalls

\* the head of one iteration of the while loop: the reload of the feed list
LoopCheck ==
    /\ mode = "monitor" /\ pc = "loop"
    /\ LET chk == CheckFeedListUpdated(feedListFile, last_feed_list_mtime) IN
       IF chk[1]
       THEN \E r \in UpdateConverters(converters, feedListFile, histFiles) :
            IF r.raised
            THEN pc' = "crashed" /\ MemoryGone
            ELSE /\ converters' = r.converters
                 /\ born' = BornWith(r.converters)
                 /\ last_feed_list_mtime' = chk[2]
                 /\ pc' = IF r.converters = <<>> THEN "sleep" ELSE "feeds"
                 /\ cur' = IF r.converters = <<>> THEN 0 ELSE 1
                 /\ UNCHANGED <<fpc, entries, idx, new_posts_count, log, hist0, invoked>>
       ELSE /\ last_feed_list_mtime' = chk[2]
            /\ pc' = "feeds"
            /\ cur' = 1
            /\ UNCHANGED <<converters, fpc, entries, idx, new_posts_count, log, hist0,
                           invoked, born>>
    /\ UNCHANGED <<mode, diskVars, restarts, prev>>
    /\ UNCHANGED epubCalls

\* the exception of process_feed ends the for loop over the converters
AfterRaiseBreak(k, n) == n + 1

\* where the for loop over the converters goes after an exception of process_feed
AfterRaise(k, n) == k + 1

\* converter.process_feed() returned, or raised and the except branch printed it
NextConverter ==
    /\ mode = "monitor" /\ pc = "feeds" /\ fpc \in { "done", "raised" }
    /\ cur' = IF fpc = "done" THEN cur + 1 ELSE AfterRaise(cur, Len(converters))
    /\ prev' = IF fpc = "done" THEN CallSummary ELSE NoPrev
    /\ fpc' = "idle"
    /\ entries' = <<>>
    /\ idx' = 0
    /\ new_posts_count' = 0
    /\ log' = <<>>
    /\ hist0' = 0
    /\ UNCHANGED <<mode, pc, converters, last_feed_list_mtime, diskVars, restarts, invoked, born>>
    /\ UNCHANGED epubCalls

\* the for loop over the converters is exhausted
FeedsDone ==
    /\ mode = "monitor" /\ pc = "feeds" /\ fpc = "idle" /\ cur > Len(converters)
    /\ pc' = "sleep"
    /\ cur' = 0
    /\ UNCHANGED <<mode, converters, last_feed_list_mtime, fpc, entries, idx, new_posts_count,
                   diskVars, obsVars>>
    /\ UNCHANGED epubCalls

\* time.sleep(self.poll_interval) returns
Sleep ==
    /\ mode = "monitor" /\ pc = "sleep"
    /\ pc' = "loop"
    /\ invoked' = <<>>
    /\ UNCHANGED <<mode, converters, last_feed_list_mtime, cur, fpc, entries, idx,
                   new_posts_count, diskVars, restarts, log, hist0, prev, born>>
    /\ UNCHANGED epubCalls

\* somebody rewrites the feed list file.  run() looks at the file only at its start
\* and at the head of an iteration, so an edit made at any other moment is an edit
\* made during the sleep, or while the process is down, that precedes that look
EditFeedList ==
    /\ mode = "monitor" /\ feedListFile.mtime < MaxEdits
    /\ pc \in { "sleep", "exit", "returned", "crashed", "interrupted" }
    /\ \E l \in FeedLists :
         feedListFile' = [exists |-> TRUE, mtime |-> feedListFile.mtime + 1, lines |-> l]
    /\ UNCHANGED <<progVars, histFiles, output, obsVars>>
    /\ UNCHANGED epubCalls

(* ------------------------------ process -------------------------------- *)
Ended == pc \in { "exit", "returned", "crashed", "interrupted" }

\* KeyboardInterrupt: a BaseException, which no `except Exception` catches
Interrupt ==
    /\ ~Ended
    /\ pc' = "interrupted"
    /\ prev' = NoPrev
    /\ MemoryGone
    /\ UNCHANGED <<mode, diskVars, restarts>>
    /\ UNCHANGED epubCalls

\* the program is started again: memory is fresh, the disk is as it was left
Restart ==
    /\ Ended /\ restarts < MaxRestarts
    /\ restarts' = restarts + 1
    /\ pc' = "start"
    /\ UNCHANGED <<mode, converters, last_feed_list_mtime, cur, fpc, entries, idx,
                   new_posts_count, diskVars, log, hist0, prev, invoked, born>>
    /\ UNCHANGED epubCalls

Init ==
    /\ mode \in { "single", "monitor" }
    /\ pc = "start"
    /\ converters = <<>>
    /\ last_feed_list_mtime = <<>>
    /\ cur = 0
    /\ fpc = "idle"
    /\ entries = <<>>
    /\ idx = 0
    /\ new_posts_count = 0
    /\ feedListFile \in IF mode = "single"
                        THEN { [exists |-> FALSE, mtime |-> 0, lines |-> <<>>] }
                        ELSE { [exists |-> TRUE, mtime |-> 0, lines |-> l] : l \in FeedLists }
                             \cup { [exists |-> FALSE, mtime |-> 0, lines |-> <<>>] }
    /\ histFiles = [f \in HistoryFiles |-> <<>>]
    /\ output = {}
    /\ restarts = 0
    /\ log = <<>>
    /\ hist0 = 0
    /\ prev = NoPrev
    /\ invoked = <<>>
    /\ born = [f \in HistoryFiles |-> 0]
    /\ epubCalls = <<>>

Next ==
    \/ ProcessFeedFetch
    \/ ExamineEntry
    \/ MarkSeen
    \/ SaveAndCount
    \/ ProcessFeedReturn
    \/ MainSingle
    \/ MainSingleEnd
    \/ RunStart
    \/ LoopCheck
    \/ NextConverter
    \/ FeedsDone
    \/ Sleep
    \/ EditFeedList
    \/ Interrupt
    \/ Restart

Spec == Init /\ [][Next]_vars

(* ------------------- the polling loop left to itself -------------------- *)
\* the entry that stays in the feed F1
SteadyEntry == Entry(TRUE, IdA, FALSE, EmptyStr)

\* process_feed up to the for loop, with the feed F1 serving the same entry whenever
\* the fetch goes through
SteadyFetch ==
    /\ ProcessFeedFetch
    /\ fpc' = "raised" \/ Conv.rss_url # F1 \/ entries' = << SteadyEntry >>

InitLive == Init /\ mode = "monitor"

\* run() with nobody touching the feed list, no interrupt and no restart
NextLive ==
    \/ RunStart
    \/ LoopCheck
    \/ SteadyFetch
    \/ ExamineEntry
    \/ MarkSeen
    \/ SaveAndCount
    \/ ProcessFeedReturn
    \/ NextConverter
    \/ FeedsDone
    \/ Sleep

\* the running program takes its next step: the statements of run() follow one another
\* and time.sleep returns
SpecLive == InitLive /\ [][NextLive]_vars /\ WF_vars(NextLive)

(* ----------------------- _create_epub, file names ----------------------- *)
\* _create_epub names the file of a post
CreateEpubNamesFile ==
    /\ Len(epubCalls) < 2
    /\ \E post \in Posts :
         epubCalls' = Append(epubCalls, [post |-> post, filename |-> EpubFilename(post)])
    /\ UNCHANGED <<progVars, diskVars, obsVars>>

InitEpub == Init /\ mode = "single"

NextEpub == CreateEpubNamesFile

SpecEpub == InitEpub /\ [][NextEpub]_vars

(* ------------------------- notions of the claims ------------------------ *)
\* the identifiers of the entries of the running call
CallIds == { PostId(entries[k]) : k \in 1..Len(entries) } \ { EmptyStr }

\* the identifiers in the history file of the running call when the call began
InStoreBefore == Range(SubSeq(HistLines, 1, hist0))

\* the identifiers in the history file of the running call now
InStore == Range(HistLines)

\* the entries of the running call that the log marks with one of the results rs
LogAt(post_id, rs) == { k \in 1..Len(log) : log[k].id = post_id /\ log[k].res \in rs }

\* _create_epub returned for an entry with this identifier in the running call
ConvertedInCall(post_id) == LogAt(post_id, { "ok", "savefail" }) # {}

\* ... and _save_post_id returned for it as well
RecordedInCall(post_id) == LogAt(post_id, { "ok" }) # {}

\* the running call follows a returned call on the same history file and feed content
SecondPass == prev # NoPrev /\ prev.file = Conv.history_file /\ prev.entries = entries

\* the lines the converter k has appended to its history file
OwnLines(k) ==
    LET f == converters[k].history_file
    IN  SubSeq(histFiles[f], born[f] + 1, Len(histFiles[f]))

NoDuplicates(q) == \A i, j \in 1..Len(q) : q[i] = q[j] => i = j

InLoop == mode = "monitor" /\ pc \in { "loop", "feeds", "sleep" }

\* the monitor has seen the feed list file as it is now
ListObserved ==
    /\ mode = "monitor" /\ feedListFile.exists
    /\ last_feed_list_mtime = <<feedListFile.mtime>>

\* the iteration of the while loop reloads the feed list and comes back from it
Reloads ==
    /\ mode = "monitor" /\ pc = "loop" /\ pc' \in { "feeds", "sleep" }
    /\ CheckFeedListUpdated(feedListFile, last_feed_list_mtime)[1]

(* -------------------------------- claims -------------------------------- *)
\* C1 (as stated): when process_feed returns, an identifier of the feed that was not
\* in the history file before the call is in the file if and only if _create_epub
\* succeeded for it during the call.
C1_MarkedIffConverted ==
    (InProcessFeed /\ fpc = "done") =>
        \A post_id \in CallIds \ InStoreBefore :
            post_id \in InStore <=> ConvertedInCall(post_id)

\* C1 (amended): when process_feed returns, an identifier of the feed that was not in
\* the history file before the call is in the file if and only if, during the call,
\* _create_epub succeeded for it and the append to the history file succeeded too.
C1_MarkedIffConvertedAndSaved ==
    (InProcessFeed /\ fpc = "done") =>
        \A post_id \in CallIds \ InStoreBefore :
            post_id \in InStore <=> RecordedInCall(post_id)

\* C1 witness: a call returned in which one conversion was recorded and another
\* conversion succeeded while its append failed.
C1_Witness ==
    /\ InProcessFeed /\ fpc = "done"
    /\ \E j, k \in 1..Len(log) : log[j].res = "savefail" /\ log[k].res = "ok"
    /\ \E post_id \in CallIds \ InStoreBefore : post_id \notin InStore

\* C2: a second pass over the same feed content (same converter, or a converter made
\* after a restart) converts no entry again that the first pass converted and recorded,
\* and returns 0 when the first pass converted and recorded every entry.
C2_Idempotent ==
    (InProcessFeed /\ fpc = "done" /\ SecondPass) =>
        /\ \A post_id \in prev.ok : ~ConvertedInCall(post_id)
        /\ (\A k \in 1..Len(entries) : PostId(entries[k]) \in prev.ok) => new_posts_count = 0

\* C3: an identifier whose conversion failed in a call, and that no entry of that call
\* was converted under, is not in the seen set when the call returns, the call has
\* appended no line for it to the history file, and the next call that finds it in the
\* feed attempts its conversion again.
C3_RetriedAfterFailure ==
    (InProcessFeed /\ fpc = "done") =>
        /\ \A post_id \in CallIds :
             (LogAt(post_id, { "convfail" }) # {} /\ ~ConvertedInCall(post_id)) =>
                 /\ post_id \notin Conv.seen_posts
                 /\ post_id \notin Range(SubSeq(HistLines, hist0 + 1, Len(HistLines)))
        /\ SecondPass => \A post_id \in prev.failed : LogAt(post_id, Converting) # {}

\* C4: process_feed examines every entry of the feed, in feed order, whatever failed
\* before it, and a failure inside the loop never makes process_feed raise.
C4_FailureContained ==
    /\ (InProcessFeed /\ fpc = "done") =>
          /\ Len(log) = Len(entries)
          /\ \A k \in 1..Len(log) : log[k].id = PostId(entries[k])
    /\ (InProcessFeed /\ fpc = "raised") => log = <<>>

\* C4 witness: a call returned in which an entry was converted and recorded after the
\* conversion of an earlier entry had failed.
C4_Witness ==
    /\ InProcessFeed /\ fpc = "done"
    /\ \E j, k \in 1..Len(log) : j < k /\ log[j].res = "convfail" /\ log[k].res = "ok"

\* C5: a reload of the feed list leaves the registry with a converter for exactly the
\* URLs of the list, keeps the converters of the URLs that stay, and leaves every
\* history file as it is.
C5_Reconciled ==
    [][Reloads =>
        /\ Keys(converters') = Range(LoadFeedList(feedListFile))
        /\ \A k \in 1..Len(converters) :
             converters[k].rss_url \in Keys(converters') =>
                 \E j \in 1..Len(converters') : converters'[j] = converters[k]
        /\ histFiles' = histFiles]_vars

\* C6: while the monitor has seen a changed feed list that holds no URL, no process_feed
\* is running.
C6_NoProcessingOnEmptyList ==
    (ListObserved /\ feedListFile.mtime > 0 /\ LoadFeedList(feedListFile) = <<>>) =>
        ~(pc = "feeds" /\ fpc # "idle")

\* C7: once run() is in its while loop, it ends by an interrupt only.
C7_OnlyInterruptEndsLoop ==
    [][(InLoop /\ pc' \notin { "loop", "feeds", "sleep" }) => pc' = "interrupted"]_vars

\* C8: when the for loop over the registry is through, process_feed has been invoked
\* once on every registered converter, in registry order, also after an invocation
\* raised; and the loop then sleeps.
C8_EveryProcessorInvoked ==
    /\ (mode = "monitor" /\ pc = "sleep") =>
          /\ Len(invoked) = Len(converters)
          /\ \A k \in 1..Len(invoked) : invoked[k].url = converters[k].rss_url
    /\ (mode = "monitor" /\ pc = "feeds") =>
          /\ Len(invoked) = IF fpc = "idle" THEN cur - 1 ELSE cur
          /\ \A k \in 1..Len(invoked) : invoked[k].url = converters[k].rss_url

\* C8 witness: the monitor sleeps after a cycle over two converters in which the
\* invocation on the first one raised.
C8_Witness ==
    /\ mode = "monitor" /\ pc = "sleep"
    /\ Len(invoked) = 2 /\ invoked[1].raised /\ ~invoked[2].raised

\* C9: in monitor mode no storage error ends run(): it never dies of an exception.
C9_StorageErrorContained == mode = "monitor" => pc # "crashed"

\* C10: in one call at most one entry per identifier is converted and at most one is
\* recorded, and a converter never appends an identifier to its history file twice.
C10_AtMostOnce ==
    /\ InProcessFeed =>
          \A post_id \in CallIds :
              /\ Cardinality(LogAt(post_id, { "ok", "savefail" })) <= 1
              /\ Cardinality(LogAt(post_id, { "ok" })) <= 1
    /\ \A k \in 1..Len(converters) : NoDuplicates(OwnLines(k))

\* C10 witness: a call returned whose feed held the same identifier twice: the first
\* entry was converted and recorded, the second was skipped as seen.
C10_Witness ==
    /\ InProcessFeed /\ fpc = "done"
    /\ \E j, k \in 1..Len(log) :
         j < k /\ log[j].id = log[k].id /\ log[j].res = "ok" /\ log[k].res = "seen"

\* the entry has neither an id nor a link
NoIdNoLink(entry) == ~entry.has_id /\ ~entry.has_link

\* C11: process_feed skips an entry that has neither an id nor a link: no conversion is
\* attempted for it, the empty identifier gets neither into the seen set nor into the
\* history file, the return value counts the recorded conversions only, and the
\* entries after it are examined (the call returns with every entry examined).
C11_MissingIdSkipped ==
    InProcessFeed =>
        /\ \A k \in 1..Len(log) :
              NoIdNoLink(entries[k]) => log[k] = [id |-> EmptyStr, res |-> "noid"]
        /\ EmptyStr \notin Conv.seen_posts
        /\ EmptyStr \notin Range(HistLines)
        /\ EmptyStr \notin output
        /\ fpc # "raised" =>
              new_posts_count = Cardinality({ k \in 1..Len(log) : log[k].res = "ok" })
        /\ fpc = "done" => Len(log) = Len(entries)

\* C11 witness: a call returned in which an entry without id and link was skipped and
\* the entry after it was converted and recorded.
C11_Witness ==
    /\ InProcessFeed /\ fpc = "done"
    /\ \E k \in 1..(Len(log) - 1) :
         NoIdNoLink(entries[k]) /\ log[k].res = "noid" /\ log[k + 1].res = "ok"
\* lines is old with at most one line added at its end
GrownByAtMostOne(old, lines) ==
    \/ lines = old
    \/ Len(lines) = Len(old) + 1 /\ SubSeq(lines, 1, Len(old)) = old

\* C12: every step of the program (processing, failures, reloads of the feed list that
\* drop or add a feed, interrupt, restart) leaves the lines of every history file as
\* they are and in place, and adds at most one line at the end of a file.
C12_AppendOnly ==
    [][\A f \in HistoryFiles : GrownByAtMostOne(histFiles[f], histFiles'[f])]_vars

\* C12 witness: in one monitor run the feed F1 was dropped and added again, and the new
\* converter has appended a line behind the lines its history file already had.
C12_Witness ==
    /\ mode = "monitor" /\ restarts = 0 /\ InLoop
    /\ born[HistoryFileOf(F1)] >= 1
    /\ Len(histFiles[HistoryFileOf(F1)]) > born[HistoryFileOf(F1)]
\* C13: every identifier that _save_post_id has written to a history file is in the
\* set that _load_history returns for that file, and that set holds no empty string.
C13_RoundTrip ==
    \A f \in HistoryFiles :
        /\ \A k \in 1..Len(histFiles[f]) : histFiles[f][k] \in LoadHistory(histFiles[f])
        /\ EmptyStr \notin LoadHistory(histFiles[f])
\* C14: two posts with the same title and the same identifier get the same file name,
\* whatever else they differ in; two posts with the same title and different
\* identifiers get different file names.
C14_FilenameStable ==
    \A j, k \in 1..Len(epubCalls) :
        LET p == epubCalls[j].post
            q == epubCalls[k].post
        IN  Title(p) = Title(q) =>
                (PostId(p) = PostId(q) <=> epubCalls[j].filename = epubCalls[k].filename)

\* C14 witness: _create_epub named the files of two posts that have the same title,
\* longer than the limit of the file name, and different identifiers.
C14_Witness ==
    /\ Len(epubCalls) = 2
    /\ Title(epubCalls[1].post) = Title(epubCalls[2].post)
    /\ Len(Title(epubCalls[1].post)) > TitleLimit
    /\ PostId(epubCalls[1].post) # PostId(epubCalls[2].post)
\* _create_epub has returned for the entry at idx and the append of its identifier to
\* the history file has not yet been done or given up
MidEntry == InProcessFeed /\ fpc \in { "created", "added" }

\* C15: the interrupt never ends the program inside the conversion-and-marking step of
\* an entry: when it strikes, no entry has its artifact written with its identifier
\* not yet appended, or its identifier in the seen set and not yet appended.
C15_InterruptBetweenWorkUnits ==
    [][(pc # "interrupted" /\ pc' = "interrupted") => ~MidEntry]_vars
\* the identifiers in the history files
Persisted == UNION { Range(histFiles[f]) : f \in HistoryFiles }

\* C16: after every step of the program, interrupts and crashes included, every
\* identifier in a history file is the identifier of an entry whose artifact was
\* written before that step.
C16_MarkAfterProduce ==
    [][\A f \in HistoryFiles : Range(histFiles'[f]) \subseteq output]_vars

\* C16 witness: an interrupt stopped the program with one identifier persisted and
\* another artifact written whose identifier is not persisted.
C16_Witness ==
    /\ pc = "interrupted"
    /\ Persisted # {}
    /\ output \ Persisted # {}
\* the entry has a non-empty link
HasLink(entry) == entry.has_link /\ entry.link # EmptyStr

\* C17: process_feed skips an entry for lack of an identifier only when the entry has
\* neither an id nor a link: an entry with a non-empty id is examined under its id, and
\* every other entry with a non-empty link (also one whose id is present and empty) is
\* examined under its link.
C17_IdentifierResolved ==
    InProcessFeed =>
        \A k \in 1..Len(log) :
            /\ (entries[k].has_id /\ entries[k].id # EmptyStr) =>
                    log[k].id = entries[k].id /\ log[k].res # "noid"
            /\ (~(entries[k].has_id /\ entries[k].id # EmptyStr) /\ HasLink(entries[k])) =>
                    log[k].id = entries[k].link /\ log[k].res # "noid"
\* C18: the seen set of every converter that is not inside the conversion-and-marking
\* step of an entry equals the set of identifiers in its history file.
C18_MemoryMatchesDisk ==
    \A k \in 1..Len(converters) :
        (k = cur /\ MidEntry) \/
        converters[k].seen_posts = Range(histFiles[converters[k].history_file])
\* a fetch, a conversion or an append to the history file fails in this step
FailureStep ==
    \/ fpc = "idle" /\ fpc' = "raised"
    \/ /\ Len(log') = Len(log) + 1
       /\ log'[Len(log')].res \in { "convfail", "savefail" }

\* C19: in the polling loop left to itself, with F1 registered and serving the entry
\* with the identifier IdA at every fetch that goes through, if from some moment on
\* no fetch, conversion or append fails any more, then IdA is eventually in the history
\* file of F1.
C19_EventuallyRecorded ==
    (<>[][~FailureStep]_vars) =>
        ((InLoop /\ F1 \in Keys(converters))
            ~> (IdA \in Range(histFiles[HistoryFileOf(F1)])))
\* C20: in one monitor run, a converter made for a URL that was dropped from the feed
\* list and added again has the history file the URL had before, starts with every
\* identifier that file held in its seen set, and so appends no identifier the file
\* already holds.
C20_ReaddResumes ==
    (InLoop /\ restarts = 0) =>
        \A k \in 1..Len(converters) :
            LET f == converters[k].history_file IN
            /\ f = HistoryFileOf(converters[k].rss_url)
            /\ Range(SubSeq(histFiles[f], 1, born[f])) \subseteq converters[k].seen_posts
            /\ NoDuplicates(histFiles[f])

====
